---- MODULE Spec2Model ----
(***************************************************************************)
(* State-machine model of StretchTimerApp (src/stretch_timer.py): the      *)
(* countdown loop run by background threads, the Tk event thread with its  *)
(* after() callback queue, the quiet-hours evaluator, the reminder         *)
(* dispatcher and the settings file.                                       *)
(*                                                                         *)
(* Handlers that run on the Tk event thread are single actions.  The body  *)
(* of timer_loop runs on another thread and is split at the points where   *)
(* the event thread can interleave: the poll of self.running, the read of  *)
(* self.paused / self.remaining_seconds, and the write of the decrement.   *)
(* The elapsed-time label written by update_stats is not part of the       *)
(* model, so the update_stats callbacks posted by the loop are left out.   *)
(***************************************************************************)
EXTENDS Integers, Sequences, FiniteSets, TLC

VARIABLES
    \* settings (tk variables and self.theme)
    interval_minutes, quiet_enabled, quiet_start, quiet_end, theme,
    custom_message, popup_timeout_seconds, popup_persistent, sound_enabled,
    \* session state
    running, paused, stretch_count, start_time, remaining_seconds,
    current_stretch, current_secondary_exercise, last_secondary_type,
    \* widgets
    timer_label, pause_btn, popups,
    \* threads of control
    threads, after_queue, closed,
    \* environment
    settings_file, disk_writable, wall_clock,
    \* observer of the countdown loop (ticks completed, triggers requested)
    probe,
    \* what a direct call of is_quiet_hours returned
    quiet_answer,
    \* the loop threads that were alive when self.running was last set to False
    stale,
    \* the host: platform, sound devices and the notification library
    host,
    \* what the last trigger_stretch did: sound, desktop notification, popup
    effects,
    \* load_settings in the constructor: "pending" before the call, then "none"
    \* or the name of the exception that left it
    load_error,
    \* where the event thread is: "mainloop" between callbacks and handlers, or
    \* "reset" inside trigger_stretch, before its last statement
    event_pc

settingsVars == <<interval_minutes, quiet_enabled, quiet_start, quiet_end, theme,
                  custom_message, popup_timeout_seconds, popup_persistent,
                  sound_enabled>>
sessionVars == <<running, paused, stretch_count, start_time, remaining_seconds,
                 current_stretch, current_secondary_exercise, last_secondary_type>>
widgetVars == <<timer_label, pause_btn, popups>>
controlVars == <<threads, after_queue, closed>>
envVars == <<settings_file, disk_writable, wall_clock>>
auxVars == <<stale, host, effects, load_error, event_pc>>
vars == <<settingsVars, sessionVars, widgetVars, controlVars, envVars, probe,
          quiet_answer, auxVars>>

----------------------------------------------------------------------------
(* Bounds of the model *)

\* largest interval the modelled user selects in the spinbox (the widget allows 120)
MaxInterval == 2
\* stretch_count is capped: no trigger runs once it has reached this value
MaxCount == 2
\* callbacks waiting in the Tk after() queue
MaxQueue == 1
\* timer_loop threads alive at once
MaxThreads == 2
\* popup windows open at once
MaxPopups == 2
\* loop iterations the observer counts
MaxTicks == 62
\* seconds of a countdown that the restart model follows
RestartWindow == 3

(* Program constants *)

SecondsPerMinute == 60
MinInterval == 1
SpinboxMaxInterval == 120
DefaultInterval == 45
DefaultPopupTimeout == 180
MinPopupTimeout == 10
MaxPopupTimeout == 300

None == "None"
\* start_time before the first start (a time of day is never negative)
NoTime == -1

----------------------------------------------------------------------------
(* Time of day and "HH:MM" strings.  A string is a sequence of one-character *)
(* strings; a time of day is the number of seconds since midnight.           *)

Digits == {"0", "1", "2", "3", "4", "5", "6", "7", "8", "9"}

DigitVal(c) ==
    CASE c = "0" -> 0 [] c = "1" -> 1 [] c = "2" -> 2 [] c = "3" -> 3
      [] c = "4" -> 4 [] c = "5" -> 5 [] c = "6" -> 6 [] c = "7" -> 7
      [] c = "8" -> 8 [] c = "9" -> 9

DigitChar(d) ==
    CASE d = 0 -> "0" [] d = 1 -> "1" [] d = 2 -> "2" [] d = 3 -> "3"
      [] d = 4 -> "4" [] d = 5 -> "5" [] d = 6 -> "6" [] d = 7 -> "7"
      [] d = 8 -> "8" [] d = 9 -> "9"

\* datetime.time(h, m, s) under the ordering Python gives time objects
TimeOfDay(h, m, s) == h * 3600 + m * 60 + s

\* number of characters the %H directive consumes at position i of str (0: no match):
\* the alternatives 2[0-3], [0-1]\d, \d in this order
MatchHour(str, i) ==
    IF /\ i + 1 <= Len(str)
       /\ str[i + 1] \in Digits
       /\ \/ str[i] = "2" /\ str[i + 1] \in {"0", "1", "2", "3"}
          \/ str[i] \in {"0", "1"}
    THEN 2
    ELSE IF i <= Len(str) /\ str[i] \in Digits THEN 1 ELSE 0

\* number of characters the %M directive consumes at position i: [0-5]\d, then \d
MatchMinute(str, i) ==
    IF /\ i + 1 <= Len(str)
       /\ str[i] \in {"0", "1", "2", "3", "4", "5"}
       /\ str[i + 1] \in Digits
    THEN 2
    ELSE IF i <= Len(str) /\ str[i] \in Digits THEN 1 ELSE 0

\* value of the n-digit number at position i
NumberAt(str, i, n) ==
    IF n = 2 THEN DigitVal(str[i]) * 10 + DigitVal(str[i + 1]) ELSE DigitVal(str[i])

\* datetime.strptime(str, "%H:%M").time(): [ok |-> FALSE] stands for ValueError
Strptime(str) ==
    LET hl == MatchHour(str, 1)
        ml == MatchMinute(str, hl + 2)
    IN  IF /\ hl > 0
           /\ hl + 1 <= Len(str)
           /\ str[hl + 1] = ":"
           /\ ml > 0
           /\ Len(str) = hl + 1 + ml
        THEN [ok |-> TRUE,
              time |-> TimeOfDay(NumberAt(str, 1, hl), NumberAt(str, hl + 2, ml), 0)]
        ELSE [ok |-> FALSE, time |-> 0]

\* the non-wrapping branch of is_quiet_hours
QuietSameDayOpenEnd(start, end, now) == start <= now /\ now < end
QuietSameDay(start, end, now) == start <= now /\ now <= end

\* the wrapping branch of is_quiet_hours
QuietOvernightBoth(start, end, now) == now >= start /\ now <= end
QuietOvernight(start, end, now) == now >= start \/ now <= end

\* is_quiet_hours with the tk variables and datetime.now().time() as parameters
IsQuietHoursFailClosed(enabled, startStr, endStr, now) ==
    IF ~enabled THEN FALSE
    ELSE LET start == Strptime(startStr)
             end == Strptime(endStr)
         IN  IF ~start.ok \/ ~end.ok THEN TRUE
             ELSE IF start.time <= end.time
                  THEN QuietSameDay(start.time, end.time, now)
                  ELSE QuietOvernight(start.time, end.time, now)

IsQuietHours(enabled, startStr, endStr, now) ==
    IF ~enabled THEN FALSE
    ELSE LET start == Strptime(startStr)
             end == Strptime(endStr)
         IN  IF ~start.ok \/ ~end.ok THEN FALSE
             ELSE IF start.time <= end.time
                  THEN QuietSameDay(start.time, end.time, now)
                  ELSE QuietOvernight(start.time, end.time, now)

\* "HH:MM" as the entry fields hold it by default
FormatHM(h, m) ==
    <<DigitChar(h \div 10), DigitChar(h % 10), ":", DigitChar(m \div 10), DigitChar(m % 10)>>

----------------------------------------------------------------------------
(* Exercises.  The handlers never branch on which entry random.choice drew, *)
(* so an exercise is represented by the catalogue it was drawn from.        *)

\* random.choice(STRETCHES)
StretchChoice == "stretch"

\* random.choice(EYE_EXERCISES) or random.choice(BREATHING_EXERCISES)
SecondaryChoice(type) == IF type = "eye" THEN "eye exercise" ELSE "breathing exercise"

\* popup windows open: those with a pending auto-close and those without
NoPopups == [timed |-> 0, sticky |-> 0]
ShownPopups == popups.timed + popups.sticky

----------------------------------------------------------------------------
(* Side effects of a reminder.  The host record says what the machine offers: *)
(* platform is sys.platform, winsound and plyer say whether the imports at    *)
(* module load succeeded, the other fields whether the call succeeds.         *)

Platforms == {"win32", "linux", "darwin"}

Hosts ==
    {h \in [platform : Platforms, winsound : BOOLEAN, playsound : BOOLEAN,
            player : BOOLEAN, bell : BOOLEAN, plyer : BOOLEAN, notify : BOOLEAN] :
        h.winsound => h.platform = "win32"}

\* a Linux desktop where every facility works
WorkingHost ==
    [platform |-> "linux", winsound |-> FALSE, playsound |-> FALSE, player |-> TRUE,
     bell |-> TRUE, plyer |-> TRUE, notify |-> TRUE]

\* play_notification_sound(root): the value it returns
PlayNotificationSound(h) ==
    IF h.platform = "win32" /\ h.winsound
    THEN h.playsound \/ h.bell
    ELSE IF h.platform = "linux"
         THEN h.player \/ h.bell
         ELSE h.bell

\* "if self.sound_enabled.get(): play_notification_sound(self.root)"
SoundOutcome(enabled, h) ==
    IF ~enabled THEN "off"
    ELSE IF PlayNotificationSound(h) THEN "played" ELSE "silent"

NotifyOutcomeUncaught(h) ==
    IF ~h.plyer THEN "unavailable"
    ELSE IF h.notify THEN "sent" ELSE "raised"

\* "if HAS_PLYER: try: notification.notify(...) except Exception: pass"
NotifyOutcome(h) ==
    IF ~h.plyer THEN "unavailable"
    ELSE IF h.notify THEN "sent" ELSE "failed"

\* no reminder yet
NoEffects == [sound |-> "none", notification |-> "none", popup |-> FALSE, raised |-> FALSE]

----------------------------------------------------------------------------
(* Settings file *)

SettingsFields == {"interval_minutes", "quiet_enabled", "quiet_start", "quiet_end",
                   "theme", "custom_message", "popup_timeout_seconds",
                   "popup_persistent", "sound_enabled"}

\* the tk variable behind each field: IntVar, BooleanVar, or a string
IntFields == {"interval_minutes", "popup_timeout_seconds"}
BoolFields == {"quiet_enabled", "popup_persistent", "sound_enabled"}

Themes == {"light", "dark"}

\* JSON values as json.load hands them over
JNumber(n) == [type |-> "number", value |-> n]
JBoolean(b) == [type |-> "boolean", value |-> b]
JString(str) == [type |-> "string", value |-> str]

\* the file does not exist
AbsentFile == [kind |-> "absent", data |-> <<>>]

\* the file holds a JSON object with the members of the function d
ObjectFile(d) == [kind |-> "object", data |-> d]

\* the file holds text that is not JSON (json.load raises JSONDecodeError)
TextFile == [kind |-> "text", data |-> <<>>]

\* the file holds bytes that are not text (reading raises UnicodeDecodeError)
BinaryFile == [kind |-> "binary", data |-> <<>>]

\* the file holds a JSON number, null, true or false
ScalarFile == [kind |-> "scalar", data |-> <<>>]

\* the file holds a JSON array or string in which no field name is found
ListFile == [kind |-> "list", data |-> <<>>]

\* mutant of SettingsDict: the two quiet-hours entries are written under each
\* other's name
SettingsDictSwapped ==
    [interval_minutes |-> interval_minutes,
     quiet_enabled |-> quiet_enabled,
     quiet_start |-> quiet_end,
     quiet_end |-> quiet_start,
     theme |-> theme,
     custom_message |-> custom_message,
     popup_timeout_seconds |-> popup_timeout_seconds,
     popup_persistent |-> popup_persistent,
     sound_enabled |-> sound_enabled]

\* the dictionary save_settings builds
SettingsDict ==
    [interval_minutes |-> interval_minutes,
     quiet_enabled |-> quiet_enabled,
     quiet_start |-> quiet_start,
     quiet_end |-> quiet_end,
     theme |-> theme,
     custom_message |-> custom_message,
     popup_timeout_seconds |-> popup_timeout_seconds,
     popup_persistent |-> popup_persistent,
     sound_enabled |-> sound_enabled]

\* json.dump of a dictionary of settings: IntVar.get() gives an int,
\* BooleanVar.get() a bool, the others are str
JsonDump(d) ==
    [field \in DOMAIN d |->
        IF field \in IntFields THEN JNumber(d[field])
        ELSE IF field \in BoolFields THEN JBoolean(d[field])
        ELSE JString(d[field])]

\* save_settings, called last in a handler: json.dump of the dictionary as the
\* handler leaves it; an IOError leaves the file as it was
SaveSettings ==
    settings_file' = IF disk_writable THEN ObjectFile(JsonDump(SettingsDict')) ELSE settings_file

\* a JSON value of the type and within the values the field's widget allows
ValidMember(field, j) ==
    CASE field = "interval_minutes" ->
            j.type = "number" /\ j.value \in MinInterval..SpinboxMaxInterval
      [] field = "popup_timeout_seconds" ->
            j.type = "number" /\ j.value \in MinPopupTimeout..MaxPopupTimeout
      [] field \in BoolFields -> j.type = "boolean"
      [] field = "theme" -> j.type = "string" /\ j.value \in Themes
      [] OTHER -> j.type = "string"

\* strings Tcl_GetBoolean accepts
TclTrue == {"1", "true", "yes", "on"}
TclFalse == {"0", "false", "no", "off"}

\* the statement that takes a field from the file raises: BooleanVar.set of a
\* string that is no boolean (TclError), THEMES[...] of an unknown name (KeyError)
SetRaises(field, j) ==
    IF field \in BoolFields THEN j.type = "string" /\ j.value \notin (TclTrue \cup TclFalse)
    ELSE IF field = "theme" THEN ~(j.type = "string" /\ j.value \in Themes)
    ELSE FALSE

SetError(field) == IF field = "theme" THEN "KeyError" ELSE "TclError"

\* what the variable holds after <variable>.set(settings[field]), read with get()
VarSet(field, j) ==
    IF field \in IntFields
    THEN CASE j.type = "number" -> j.value
           [] j.type = "boolean" -> IF j.value THEN 1 ELSE 0
    ELSE IF field \in BoolFields
    THEN CASE j.type = "boolean" -> j.value
           [] j.type = "number" -> j.value # 0
           [] j.type = "string" -> j.value \in TclTrue
    ELSE CASE j.type = "string" -> j.value

\* the order in which load_settings looks for the fields
LoadOrder == <<"interval_minutes", "quiet_enabled", "quiet_start", "quiet_end", "theme",
               "custom_message", "popup_timeout_seconds", "popup_persistent",
               "sound_enabled">>

Position(field) == CHOOSE i \in 1..Len(LoadOrder) : LoadOrder[i] = field

\* position of the first field whose statement raises, 0 if none does
FirstRaise(file) ==
    LET raising == {i \in 1..Len(LoadOrder) :
                       /\ file.kind = "object"
                       /\ LoadOrder[i] \in DOMAIN file.data
                       /\ SetRaises(LoadOrder[i], file.data[LoadOrder[i]])}
    IN  IF raising = {} THEN 0
        ELSE CHOOSE i \in raising : \A k \in raising : i <= k

\* how load_settings ends: JSONDecodeError and IOError are caught, a missing
\* file is not opened; "x in settings" raises TypeError on a number, null or bool
LoadError(file) ==
    CASE file.kind \in {"absent", "text", "list"} -> "none"
      [] file.kind = "binary" -> "UnicodeDecodeError"
      [] file.kind = "scalar" -> "TypeError"
      [] file.kind = "object" ->
            IF FirstRaise(file) = 0 THEN "none" ELSE SetError(LoadOrder[FirstRaise(file)])

\* mutant of Loaded: a file that lacks a field is ignored as a whole
LoadedAllOrNothing(file, field, default) ==
    IF file.kind = "object" /\ DOMAIN file.data = SettingsFields /\ FirstRaise(file) = 0
    THEN VarSet(field, file.data[field])
    ELSE default

\* one "if <field> in settings" step of load_settings, over the value the
\* variable has before: the steps after a raising one are not reached, and
\* self.theme is assigned before THEMES is indexed
Loaded(file, field, default) ==
    IF /\ file.kind = "object"
       /\ field \in DOMAIN file.data
       /\ \/ FirstRaise(file) = 0
          \/ Position(field) < FirstRaise(file)
          \/ Position(field) = FirstRaise(file) /\ field = "theme"
    THEN VarSet(field, file.data[field])
    ELSE default

DefaultQuietStart == FormatHM(18, 0)
DefaultQuietEnd == FormatHM(8, 0)
DefaultMessage == "Time to Stretch!"

\* the constructor's values of the settings
DefaultSettings ==
    [interval_minutes |-> DefaultInterval,
     quiet_enabled |-> FALSE,
     quiet_start |-> DefaultQuietStart,
     quiet_end |-> DefaultQuietEnd,
     theme |-> "light",
     custom_message |-> DefaultMessage,
     popup_timeout_seconds |-> DefaultPopupTimeout,
     popup_persistent |-> FALSE,
     sound_enabled |-> TRUE]

\* the constructor's values of everything but the settings
NewSession ==
    /\ running = FALSE
    /\ paused = FALSE
    /\ stretch_count = 0
    /\ start_time = NoTime
    /\ remaining_seconds = 0
    /\ current_stretch = None
    /\ current_secondary_exercise = None
    /\ last_secondary_type = "breathing"
    /\ timer_label = <<30, 0>>
    /\ pause_btn = "disabled"
    /\ popups = NoPopups
    /\ threads = [t \in 1..MaxThreads |-> [pc |-> "idle", local |-> 0]]
    /\ after_queue = <<>>
    /\ closed = FALSE
    /\ stale = {}
    /\ effects = NoEffects
    /\ event_pc = "mainloop"

\* __init__ up to the call of load_settings, for the settings file found at launch
BeforeLoad(file) ==
    /\ settings_file = file
    /\ interval_minutes = DefaultSettings.interval_minutes
    /\ quiet_enabled = DefaultSettings.quiet_enabled
    /\ quiet_start = DefaultSettings.quiet_start
    /\ quiet_end = DefaultSettings.quiet_end
    /\ theme = DefaultSettings.theme
    /\ custom_message = DefaultSettings.custom_message
    /\ popup_timeout_seconds = DefaultSettings.popup_timeout_seconds
    /\ popup_persistent = DefaultSettings.popup_persistent
    /\ sound_enabled = DefaultSettings.sound_enabled
    /\ NewSession
    /\ load_error = "pending"

\* load_settings, called by the constructor; an exception that leaves it ends
\* the program before its window is shown
LoadSettingsCall ==
    /\ load_error = "pending"
    /\ interval_minutes' = Loaded(settings_file, "interval_minutes", interval_minutes)
    /\ quiet_enabled' = Loaded(settings_file, "quiet_enabled", quiet_enabled)
    /\ quiet_start' = Loaded(settings_file, "quiet_start", quiet_start)
    /\ quiet_end' = Loaded(settings_file, "quiet_end", quiet_end)
    /\ theme' = Loaded(settings_file, "theme", theme)
    /\ custom_message' = Loaded(settings_file, "custom_message", custom_message)
    /\ popup_timeout_seconds' =
           Loaded(settings_file, "popup_timeout_seconds", popup_timeout_seconds)
    /\ popup_persistent' = Loaded(settings_file, "popup_persistent", popup_persistent)
    /\ sound_enabled' = Loaded(settings_file, "sound_enabled", sound_enabled)
    /\ load_error' = LoadError(settings_file)
    /\ closed' = (load_error' # "none")
    /\ UNCHANGED <<sessionVars, widgetVars, threads, after_queue, envVars, probe,
                   quiet_answer, stale, host, effects, event_pc>>

\* __init__ up to and including load_settings, for the settings file found at launch
Construct(file) ==
    /\ settings_file = file
    /\ interval_minutes = Loaded(file, "interval_minutes", DefaultInterval)
    /\ quiet_enabled = Loaded(file, "quiet_enabled", FALSE)
    /\ quiet_start = Loaded(file, "quiet_start", DefaultQuietStart)
    /\ quiet_end = Loaded(file, "quiet_end", DefaultQuietEnd)
    /\ theme = Loaded(file, "theme", "light")
    /\ custom_message = Loaded(file, "custom_message", DefaultMessage)
    /\ popup_timeout_seconds = Loaded(file, "popup_timeout_seconds", DefaultPopupTimeout)
    /\ popup_persistent = Loaded(file, "popup_persistent", FALSE)
    /\ sound_enabled = Loaded(file, "sound_enabled", TRUE)
    /\ NewSession
    /\ load_error = LoadError(file)

----------------------------------------------------------------------------
(* Helpers of the handlers *)

\* interval_minutes.get() * 60
IntervalSeconds(minutes) == minutes * SecondsPerMinute

\* the loop's test of the countdown: self.remaining_seconds <= 0
ExpiredEarly(seconds) == seconds <= 1
Expired(seconds) == seconds <= 0

\* divmod(seconds, 60) as the timer label shows it, "{m:02d}:{s:02d}"
LabelOf(seconds) == <<seconds \div SecondsPerMinute, seconds % SecondsPerMinute>>

\* the label stop_timer and update_interval write, "{interval:02d}:00"
IntervalLabel(minutes) == <<minutes, 0>>

\* mutant of NextSecondaryType: the type is not flipped after an eye exercise
NextSecondaryTypeStuck(last) == "eye"

\* the type trigger_stretch picks from last_secondary_type
NextSecondaryType(last) == IF last = "breathing" THEN "eye" ELSE "breathing"

\* callbacks handed to root.after(0, ...)
TriggerCallback == [fn |-> "trigger_stretch", label |-> <<0, 0>>]
LabelCallback(l) == [fn |-> "timer_label", label |-> l]

\* times of day the wall clock shows in the session model
SessionNows == {TimeOfDay(12, 0, 0), TimeOfDay(23, 30, 0)}

FreeThreads == {t \in 1..MaxThreads : threads[t].pc = "idle"}

\* the loop threads that have not returned from timer_loop
LiveThreads == {t \in 1..MaxThreads : threads[t].pc # "idle"}

\* what a loop iteration adds to the observer
Observed(ticks, requests) ==
    IF probe.on
    THEN [probe EXCEPT !.ticks = @ + ticks, !.requests = @ + requests]
    ELSE IF probe.laps
    THEN [probe EXCEPT !.lap = IF requests > 0 THEN 0 ELSE @ + ticks]
    ELSE probe

----------------------------------------------------------------------------
(* Handlers on the Tk event thread *)

\* mutant of StartTimer: the count of the previous session is kept
StartTimerKeepsCount ==
    /\ ~closed
    /\ ~running
    /\ FreeThreads # {}
    /\ running' = TRUE
    /\ paused' = FALSE
    /\ start_time' = wall_clock
    /\ remaining_seconds' = IntervalSeconds(interval_minutes)
    /\ pause_btn' = "normal"
    /\ LET t == CHOOSE x \in FreeThreads : \A y \in FreeThreads : x <= y
       IN  /\ threads' = [threads EXCEPT ![t] = [pc |-> "head", local |-> 0]]
           /\ stale' = stale \ {t}
    /\ UNCHANGED <<host, effects, load_error, event_pc>>
    /\ UNCHANGED <<settingsVars, stretch_count, current_stretch,
                   current_secondary_exercise, last_secondary_type, timer_label,
                   popups, after_queue, closed, envVars, probe, quiet_answer>>

\* start_timer, reached from toggle_timer when not running
StartTimer ==
    /\ ~closed
    /\ ~running
    /\ FreeThreads # {}
    /\ running' = TRUE
    /\ paused' = FALSE
    /\ stretch_count' = 0
    /\ start_time' = wall_clock
    /\ remaining_seconds' = IntervalSeconds(interval_minutes)
    /\ pause_btn' = "normal"
    /\ LET t == CHOOSE x \in FreeThreads : \A y \in FreeThreads : x <= y
       IN  /\ threads' = [threads EXCEPT ![t] = [pc |-> "head", local |-> 0]]
           /\ stale' = stale \ {t}
    /\ UNCHANGED <<host, effects, load_error, event_pc>>
    /\ UNCHANGED <<settingsVars, current_stretch, current_secondary_exercise,
                   last_secondary_type, timer_label, popups, after_queue, closed,
                   envVars, probe, quiet_answer>>

\* mutant of StopTimer: stopping also clears the session's count
StopTimerClearsCount ==
    /\ ~closed
    /\ running
    /\ running' = FALSE
    /\ paused' = FALSE
    /\ stretch_count' = 0
    /\ pause_btn' = "disabled"
    /\ timer_label' = IntervalLabel(interval_minutes)
    /\ stale' = LiveThreads
    /\ UNCHANGED <<host, effects, load_error, event_pc>>
    /\ UNCHANGED <<settingsVars, start_time, remaining_seconds, current_stretch,
                   current_secondary_exercise, last_secondary_type, popups,
                   controlVars, envVars, probe, quiet_answer>>

\* mutant of StopTimer: the pause of the stopped session is kept
StopTimerKeepsPause ==
    /\ ~closed
    /\ running
    /\ running' = FALSE
    /\ pause_btn' = "disabled"
    /\ timer_label' = IntervalLabel(interval_minutes)
    /\ stale' = LiveThreads
    /\ UNCHANGED <<host, effects, load_error, event_pc>>
    /\ UNCHANGED <<settingsVars, paused, stretch_count, start_time, remaining_seconds,
                   current_stretch, current_secondary_exercise, last_secondary_type,
                   popups, controlVars, envVars, probe, quiet_answer>>

\* stop_timer, reached from toggle_timer when running
StopTimer ==
    /\ ~closed
    /\ running
    /\ running' = FALSE
    /\ paused' = FALSE
    /\ pause_btn' = "disabled"
    /\ timer_label' = IntervalLabel(interval_minutes)
    /\ stale' = LiveThreads
    /\ UNCHANGED <<host, effects, load_error, event_pc>>
    /\ UNCHANGED <<settingsVars, stretch_count, start_time, remaining_seconds,
                   current_stretch, current_secondary_exercise, last_secondary_type,
                   popups, controlVars, envVars, probe, quiet_answer>>

\* toggle_pause, the command of the Pause button (pressable while it is enabled)
TogglePause ==
    /\ ~closed
    /\ pause_btn = "normal"
    /\ paused' = ~paused
    /\ UNCHANGED <<settingsVars, running, stretch_count, start_time, remaining_seconds,
                   current_stretch, current_secondary_exercise, last_secondary_type,
                   widgetVars, controlVars, envVars, probe, quiet_answer, auxVars>>

\* show_stretch_popup: a Toplevel, with an after(timeout) unless persistent
ShowStretchPopup ==
    /\ ShownPopups < MaxPopups
    /\ popups' = IF popup_persistent
                 THEN [popups EXCEPT !.sticky = @ + 1]
                 ELSE [popups EXCEPT !.timed = @ + 1]

\* trigger_stretch, whether run from the queue or from the Now button
\* mutant of TriggerStretch: a reminder is counted only while the timer runs
TriggerStretchWhileRunning ==
    /\ stretch_count < MaxCount
    /\ stretch_count' = IF running THEN stretch_count + 1 ELSE stretch_count
    /\ last_secondary_type' = NextSecondaryType(last_secondary_type)
    /\ current_stretch' = StretchChoice
    /\ current_secondary_exercise' = SecondaryChoice(last_secondary_type')
    /\ LET sound == SoundOutcome(sound_enabled, host)
           note == IF sound = "raised" THEN "none" ELSE NotifyOutcome(host)
           done == sound # "raised" /\ note # "raised"
       IN  /\ effects' = [sound |-> sound, notification |-> note, popup |-> done,
                          raised |-> ~done]
           /\ IF done
              THEN /\ ShowStretchPopup
                   /\ remaining_seconds' = IntervalSeconds(interval_minutes)
              ELSE UNCHANGED <<popups, remaining_seconds>>
    /\ UNCHANGED <<settingsVars, running, paused, start_time, timer_label, pause_btn,
                   threads, closed, envVars, probe, quiet_answer, stale, host,
                   load_error, event_pc>>

\* An exception that escaped the sound or the notification step would end the
\* handler before the popup and the reset of the countdown.
TriggerStretch ==
    /\ stretch_count < MaxCount
    /\ stretch_count' = stretch_count + 1
    /\ last_secondary_type' = NextSecondaryType(last_secondary_type)
    /\ current_stretch' = StretchChoice
    /\ current_secondary_exercise' = SecondaryChoice(last_secondary_type')
    /\ LET sound == SoundOutcome(sound_enabled, host)
           note == IF sound = "raised" THEN "none" ELSE NotifyOutcome(host)
           done == sound # "raised" /\ note # "raised"
       IN  /\ effects' = [sound |-> sound, notification |-> note, popup |-> done,
                          raised |-> ~done]
           /\ IF done
              THEN /\ ShowStretchPopup
                   /\ remaining_seconds' = IntervalSeconds(interval_minutes)
              ELSE UNCHANGED <<popups, remaining_seconds>>
    /\ UNCHANGED <<settingsVars, running, paused, start_time, timer_label, pause_btn,
                   threads, closed, envVars, probe, quiet_answer, stale, host,
                   load_error, event_pc>>

\* mutant of StretchNow: the button does nothing in quiet hours
StretchNowUnlessQuiet ==
    /\ ~closed
    /\ ~IsQuietHours(quiet_enabled, quiet_start, quiet_end, wall_clock)
    /\ TriggerStretch
    /\ UNCHANGED after_queue

\* the Now button
StretchNow ==
    /\ ~closed
    /\ TriggerStretch
    /\ UNCHANGED after_queue

\* the event loop runs the oldest after(0, ...) callback
RunCallback ==
    /\ ~closed
    /\ after_queue # <<>>
    /\ after_queue' = Tail(after_queue)
    /\ IF Head(after_queue).fn = "trigger_stretch"
       THEN TriggerStretch
       ELSE /\ timer_label' = Head(after_queue).label
            /\ UNCHANGED <<settingsVars, sessionVars, pause_btn, popups, threads,
                           closed, envVars, probe, quiet_answer, auxVars>>

\* the event loop runs a label update posted by the loop
RunLabelCallback ==
    /\ event_pc = "mainloop"
    /\ after_queue # <<>>
    /\ Head(after_queue).fn = "timer_label"
    /\ RunCallback

\* the event loop runs a posted trigger_stretch up to and including
\* show_stretch_popup; the loop thread goes on ticking meanwhile
TriggerEnter ==
    /\ ~closed
    /\ event_pc = "mainloop"
    /\ after_queue # <<>>
    /\ Head(after_queue) = TriggerCallback
    /\ after_queue' = Tail(after_queue)
    /\ stretch_count < MaxCount
    /\ stretch_count' = stretch_count + 1
    /\ last_secondary_type' = NextSecondaryType(last_secondary_type)
    /\ current_stretch' = StretchChoice
    /\ current_secondary_exercise' = SecondaryChoice(last_secondary_type')
    /\ LET sound == SoundOutcome(sound_enabled, host)
           note == IF sound = "raised" THEN "none" ELSE NotifyOutcome(host)
           done == sound # "raised" /\ note # "raised"
       IN  /\ effects' = [sound |-> sound, notification |-> note, popup |-> done,
                          raised |-> ~done]
           /\ event_pc' = IF done THEN "reset" ELSE "mainloop"
           /\ IF done THEN ShowStretchPopup ELSE UNCHANGED popups
    /\ UNCHANGED <<settingsVars, running, paused, start_time, remaining_seconds,
                   timer_label, pause_btn, threads, closed, envVars, probe,
                   quiet_answer, stale, host, load_error>>

\* mutant of TriggerReset: the countdown restarts one second short
TriggerResetShort ==
    /\ event_pc = "reset"
    /\ remaining_seconds' = IntervalSeconds(interval_minutes) - 1
    /\ event_pc' = "mainloop"
    /\ UNCHANGED <<settingsVars, running, paused, stretch_count, start_time,
                   current_stretch, current_secondary_exercise, last_secondary_type,
                   widgetVars, controlVars, envVars, probe, quiet_answer, stale, host,
                   effects, load_error>>

\* the last statement of trigger_stretch: the countdown is reset
TriggerReset ==
    /\ event_pc = "reset"
    /\ remaining_seconds' = IntervalSeconds(interval_minutes)
    /\ event_pc' = "mainloop"
    /\ UNCHANGED <<settingsVars, running, paused, stretch_count, start_time,
                   current_stretch, current_secondary_exercise, last_secondary_type,
                   widgetVars, controlVars, envVars, probe, quiet_answer, stale, host,
                   effects, load_error>>

\* the interval spinbox set to v, then its command update_interval
UpdateInterval(v) ==
    /\ ~closed
    /\ interval_minutes' = v
    /\ timer_label' = IF ~running THEN IntervalLabel(v) ELSE timer_label
    /\ UNCHANGED <<quiet_enabled, quiet_start, quiet_end, theme, custom_message,
                   popup_timeout_seconds, popup_persistent, sound_enabled>>
    /\ SaveSettings
    /\ UNCHANGED <<sessionVars, pause_btn, popups, controlVars, disk_writable, wall_clock,
                   probe, quiet_answer, auxVars>>

\* the quiet-hours checkbox (it has no command)
ToggleQuiet ==
    /\ ~closed
    /\ quiet_enabled' = ~quiet_enabled
    /\ UNCHANGED <<interval_minutes, quiet_start, quiet_end, theme, custom_message,
                   popup_timeout_seconds, popup_persistent, sound_enabled,
                   sessionVars, widgetVars, controlVars, envVars, probe, quiet_answer, auxVars>>

\* the quiet-hours start entry left with the text str in it: save_settings
EditQuietStart(str) ==
    /\ ~closed
    /\ quiet_start' = str
    /\ UNCHANGED <<interval_minutes, quiet_enabled, quiet_end, theme, custom_message,
                   popup_timeout_seconds, popup_persistent, sound_enabled>>
    /\ SaveSettings
    /\ UNCHANGED <<sessionVars, widgetVars, controlVars, disk_writable, wall_clock, probe,
                   quiet_answer, auxVars>>

\* the quiet-hours end entry left with the text str in it: save_settings
EditQuietEnd(str) ==
    /\ ~closed
    /\ quiet_end' = str
    /\ UNCHANGED <<interval_minutes, quiet_enabled, quiet_start, theme, custom_message,
                   popup_timeout_seconds, popup_persistent, sound_enabled>>
    /\ SaveSettings
    /\ UNCHANGED <<sessionVars, widgetVars, controlVars, disk_writable, wall_clock, probe,
                   quiet_answer, auxVars>>

\* the persistent-popup checkbox and its command toggle_persistent_popup: the
\* timeout spinbox is disabled or enabled, the settings are saved; popups that
\* are open keep the auto-close they were given, or not given, when shown
TogglePersistent ==
    /\ ~closed
    /\ popup_persistent' = ~popup_persistent
    /\ UNCHANGED <<interval_minutes, quiet_enabled, quiet_start, quiet_end, theme,
                   custom_message, popup_timeout_seconds, sound_enabled>>
    /\ SaveSettings
    /\ UNCHANGED <<sessionVars, widgetVars, controlVars, disk_writable, wall_clock, probe,
                   quiet_answer, auxVars>>

\* the popup-timeout spinbox (enabled while the popup is not persistent) set to
\* v; its command is save_settings
SetPopupTimeout(v) ==
    /\ ~closed
    /\ ~popup_persistent
    /\ popup_timeout_seconds' = v
    /\ UNCHANGED <<interval_minutes, quiet_enabled, quiet_start, quiet_end, theme,
                   custom_message, popup_persistent, sound_enabled>>
    /\ SaveSettings
    /\ UNCHANGED <<sessionVars, widgetVars, controlVars, disk_writable, wall_clock, probe,
                   quiet_answer, auxVars>>

\* the sound checkbox, whose command is save_settings
ToggleSound ==
    /\ ~closed
    /\ sound_enabled' = ~sound_enabled
    /\ UNCHANGED <<interval_minutes, quiet_enabled, quiet_start, quiet_end, theme,
                   custom_message, popup_timeout_seconds, popup_persistent>>
    /\ SaveSettings
    /\ UNCHANGED <<sessionVars, widgetVars, controlVars, disk_writable, wall_clock, probe,
                   quiet_answer, auxVars>>

\* toggle_theme
ToggleTheme ==
    /\ ~closed
    /\ theme' = IF theme = "light" THEN "dark" ELSE "light"
    /\ UNCHANGED <<interval_minutes, quiet_enabled, quiet_start, quiet_end,
                   custom_message, popup_timeout_seconds, popup_persistent,
                   sound_enabled>>
    /\ SaveSettings
    /\ UNCHANGED <<sessionVars, widgetVars, controlVars, disk_writable, wall_clock, probe,
                   quiet_answer, auxVars>>

\* the Done! button of a popup: popup.destroy, which also deletes the Tcl
\* command of the popup's pending after()
DismissPopup(kind) ==
    /\ ~closed
    /\ popups[kind] > 0
    /\ popups' = [popups EXCEPT ![kind] = @ - 1]
    /\ UNCHANGED <<settingsVars, sessionVars, timer_label, pause_btn, controlVars,
                   envVars, probe, quiet_answer, auxVars>>

\* mutant of PopupTimeout: the callback runs and leaves the popup open
PopupTimeoutLost ==
    /\ ~closed
    /\ popups.timed > 0
    /\ UNCHANGED vars

\* the after(timeout_ms) callback of a popup that still exists: popup.destroy
PopupTimeout ==
    /\ ~closed
    /\ popups.timed > 0
    /\ popups' = [popups EXCEPT !.timed = @ - 1]
    /\ UNCHANGED <<settingsVars, sessionVars, timer_label, pause_btn, controlVars,
                   envVars, probe, quiet_answer, auxVars>>

\* on_close: the window with its popups and pending callbacks is destroyed
OnClose ==
    /\ ~closed
    /\ running' = FALSE
    /\ UNCHANGED settingsVars
    /\ SaveSettings
    /\ closed' = TRUE
    /\ after_queue' = <<>>
    /\ popups' = NoPopups
    /\ stale' = LiveThreads
    /\ UNCHANGED <<host, effects, load_error, event_pc>>
    /\ UNCHANGED <<paused, stretch_count, start_time, remaining_seconds,
                   current_stretch, current_secondary_exercise, last_secondary_type,
                   timer_label, pause_btn, threads, disk_writable, wall_clock, probe,
                   quiet_answer>>

----------------------------------------------------------------------------
(* timer_loop, one instance per thread t.  pc "head" is the evaluation of    *)
(* "while self.running" (after the sleep of the previous iteration), "body"  *)
(* the iteration up to its read of remaining_seconds, "dec" the write of     *)
(* "remaining_seconds -= 1", "show" the posting of the label update.  Once   *)
(* the root window is destroyed a call into Tk raises and ends the thread.   *)

\* while self.running
ThreadPoll(t) ==
    /\ threads[t].pc = "head"
    /\ threads' = [threads EXCEPT ![t].pc = IF running THEN "body" ELSE "idle"]
    /\ UNCHANGED <<settingsVars, sessionVars, widgetVars, after_queue, closed,
                   envVars, probe, quiet_answer, auxVars>>

ThreadPausedCounts(t) ==
    /\ threads[t].pc = "body"
    /\ paused
    /\ threads' = [threads EXCEPT ![t].pc = IF closed THEN "idle" ELSE "head"]
    /\ remaining_seconds' = remaining_seconds - 1
    /\ UNCHANGED <<settingsVars, running, paused, stretch_count, start_time,
                   current_stretch, current_secondary_exercise, last_secondary_type,
                   widgetVars, after_queue, closed, envVars, probe, quiet_answer, auxVars>>

\* the iteration finds self.paused set: nothing but update_stats is posted
ThreadPaused(t) ==
    /\ threads[t].pc = "body"
    /\ paused
    /\ threads' = [threads EXCEPT ![t].pc = IF closed THEN "idle" ELSE "head"]
    /\ UNCHANGED <<settingsVars, sessionVars, widgetVars, after_queue, closed,
                   envVars, probe, quiet_answer, auxVars>>

ThreadExpireDefers(t) ==
    /\ threads[t].pc = "body"
    /\ ~paused
    /\ Expired(remaining_seconds)
    /\ IF closed
       THEN /\ threads' = [threads EXCEPT ![t].pc = "idle"]
            /\ UNCHANGED <<remaining_seconds, after_queue, probe>>
       ELSE LET quiet == IsQuietHours(quiet_enabled, quiet_start, quiet_end, wall_clock)
            IN  /\ quiet \/ Len(after_queue) < MaxQueue
                /\ probe.on => probe.ticks < MaxTicks
                /\ after_queue' = IF quiet THEN after_queue
                                  ELSE Append(after_queue, TriggerCallback)
                /\ remaining_seconds' = IF quiet THEN remaining_seconds
                                       ELSE IntervalSeconds(interval_minutes)
                /\ probe' = Observed(1, IF quiet THEN 0 ELSE 1)
                /\ threads' = [threads EXCEPT ![t].pc = "show"]
    /\ UNCHANGED <<settingsVars, running, paused, stretch_count, start_time,
                   current_stretch, current_secondary_exercise, last_secondary_type,
                   widgetVars, closed, envVars, quiet_answer, auxVars>>

\* remaining_seconds <= 0: quiet hours are evaluated, the trigger is posted
\* unless they suppress it, and the countdown is reset
ThreadExpire(t) ==
    /\ threads[t].pc = "body"
    /\ ~paused
    /\ Expired(remaining_seconds)
    /\ IF closed
       THEN /\ threads' = [threads EXCEPT ![t].pc = "idle"]
            /\ UNCHANGED <<remaining_seconds, after_queue, probe>>
       ELSE LET quiet == IsQuietHours(quiet_enabled, quiet_start, quiet_end, wall_clock)
            IN  /\ quiet \/ Len(after_queue) < MaxQueue
                /\ probe.on => probe.ticks < MaxTicks
                /\ after_queue' = IF quiet THEN after_queue
                                  ELSE Append(after_queue, TriggerCallback)
                /\ remaining_seconds' = IntervalSeconds(interval_minutes)
                /\ probe' = Observed(1, IF quiet THEN 0 ELSE 1)
                /\ threads' = [threads EXCEPT ![t].pc = "show"]
    /\ UNCHANGED <<settingsVars, running, paused, stretch_count, start_time,
                   current_stretch, current_secondary_exercise, last_secondary_type,
                   widgetVars, closed, envVars, quiet_answer, auxVars>>

\* remaining_seconds > 0: the read half of "self.remaining_seconds -= 1"
ThreadRead(t) ==
    /\ threads[t].pc = "body"
    /\ ~paused
    /\ ~Expired(remaining_seconds)
    /\ threads' = [threads EXCEPT ![t] = [pc |-> "dec", local |-> remaining_seconds]]
    /\ UNCHANGED <<settingsVars, sessionVars, widgetVars, after_queue, closed,
                   envVars, probe, quiet_answer, auxVars>>

\* the write half of "self.remaining_seconds -= 1"
ThreadDecrement(t) ==
    /\ threads[t].pc = "dec"
    /\ probe.on => probe.ticks < MaxTicks
    /\ remaining_seconds' = threads[t].local - 1
    /\ probe' = Observed(1, 0)
    /\ threads' = [threads EXCEPT ![t] = [pc |-> "show", local |-> 0]]
    /\ UNCHANGED <<settingsVars, running, paused, stretch_count, start_time,
                   current_stretch, current_secondary_exercise, last_secondary_type,
                   widgetVars, after_queue, closed, envVars, quiet_answer, auxVars>>

\* mutant of ThreadShow: the loop thread configures the label itself
ThreadShowDirect(t) ==
    /\ threads[t].pc = "show"
    /\ IF closed
       THEN /\ threads' = [threads EXCEPT ![t].pc = "idle"]
            /\ UNCHANGED timer_label
       ELSE /\ timer_label' = LabelOf(remaining_seconds)
            /\ threads' = [threads EXCEPT ![t].pc = "head"]
    /\ UNCHANGED <<settingsVars, sessionVars, pause_btn, popups, after_queue, closed,
                   envVars, probe, quiet_answer, auxVars>>

\* "Update display": divmod of remaining_seconds, posted as a label update
ThreadShow(t) ==
    /\ threads[t].pc = "show"
    /\ IF closed
       THEN /\ threads' = [threads EXCEPT ![t].pc = "idle"]
            /\ UNCHANGED after_queue
       ELSE /\ Len(after_queue) < MaxQueue
            /\ after_queue' = Append(after_queue, LabelCallback(LabelOf(remaining_seconds)))
            /\ threads' = [threads EXCEPT ![t].pc = "head"]
    /\ UNCHANGED <<settingsVars, sessionVars, widgetVars, closed, envVars, probe, quiet_answer, auxVars>>

\* a step of thread t while self.paused is not set
ThreadTick(t) ==
    \/ ThreadPoll(t)
    \/ ThreadExpire(t)
    \/ ThreadRead(t)
    \/ ThreadDecrement(t)
    \/ ThreadShow(t)

\* a step of thread t
ThreadStep(t) ==
    \/ ThreadTick(t)
    \/ ThreadPaused(t)

\* the wall clock moves to another time of day
ClockAdvance ==
    /\ \E now \in SessionNows \ {wall_clock} : wall_clock' = now
    /\ UNCHANGED <<settingsVars, sessionVars, widgetVars, controlVars, settings_file,
                   disk_writable, probe, quiet_answer, auxVars>>

----------------------------------------------------------------------------
(* Specifications.  Each one launches the application over a settings file  *)
(* and lets a user operate some of its controls while the loop runs.         *)

ProbeOff == [on |-> FALSE, laps |-> FALSE, ticks |-> 0, requests |-> 0, lap |-> 0]

ProbeOn == [on |-> TRUE, laps |-> FALSE, ticks |-> 0, requests |-> 0, lap |-> 0]

\* the observer counting the iterations since the last request of a trigger
ProbeLap == [on |-> FALSE, laps |-> TRUE, ticks |-> 0, requests |-> 0, lap |-> 0]

\* the application launched over a writable settings file that holds a JSON
\* object with the members given
Launch(members) ==
    /\ Construct(ObjectFile(JsonDump(members)))
    /\ disk_writable = TRUE
    /\ quiet_answer = <<>>

\* the same on a host where sound and notifications work
LaunchAtDesk(members) ==
    /\ Launch(members)
    /\ host = WorkingHost

Noon == TimeOfDay(12, 0, 0)

\* Start pressed once the loop of the previous run has ended
StartAfterExit ==
    /\ \A t \in 1..MaxThreads : threads[t].pc = "idle"
    /\ StartTimer

\* the popups are closed, by the user or by their timeout
ClosePopup ==
    \/ \E kind \in {"timed", "sticky"} : DismissPopup(kind)
    \/ PopupTimeout

\* the event loop and the loop threads take their steps
Run ==
    \/ RunCallback
    \/ ClosePopup
    \/ \E t \in 1..MaxThreads : ThreadStep(t)

\* the same where the user never presses Pause
RunUnpaused ==
    \/ RunCallback
    \/ ClosePopup
    \/ \E t \in 1..MaxThreads : ThreadTick(t)

(* The session: the timer controls and the theme button, at the shortest interval *)

Init ==
    /\ LaunchAtDesk([interval_minutes |-> MinInterval])
    /\ wall_clock = Noon
    /\ probe = ProbeOff

Next ==
    \/ StartAfterExit
    \/ StopTimer
    \/ TogglePause
    \/ StretchNow
    \/ ToggleTheme
    \/ OnClose
    \/ Run

Spec == Init /\ [][Next]_vars

(* The countdown under interval changes: Start, Stop and the interval spinbox *)

InitInterval ==
    /\ \E i \in MinInterval..MaxInterval : LaunchAtDesk([interval_minutes |-> i])
    /\ wall_clock = Noon
    /\ probe = ProbeOff

NextInterval ==
    \/ StartAfterExit
    \/ StopTimer
    \/ \E v \in MinInterval..MaxInterval : UpdateInterval(v)
    \/ RunUnpaused

SpecInterval == InitInterval /\ [][NextInterval]_vars

(* The scenario of one countdown: Start, then the loop with nothing else pressed; *)
(* the observer counts the loop's iterations and the triggers it requests        *)

InitScenario ==
    /\ LaunchAtDesk([interval_minutes |-> MinInterval])
    /\ wall_clock = Noon
    /\ probe = ProbeOn

NextScenario ==
    \/ StartAfterExit
    \/ RunUnpaused

SpecScenario == InitScenario /\ [][NextScenario]_vars

(* The countdown under quiet hours: the settings file holds the quiet-hours   *)
(* fields, well-formed or not; the user starts the timer and ticks the quiet  *)
(* check box, the clock moves between day and night                           *)

\* a call of is_quiet_hours
IsQuietHoursCall ==
    /\ quiet_answer' = <<IsQuietHours(quiet_enabled, quiet_start, quiet_end, wall_clock)>>
    /\ UNCHANGED <<settingsVars, sessionVars, widgetVars, controlVars, envVars, probe,
                   auxVars>>

Malformed == {<<>>,
              <<"2", "4", ":", "0", "0">>,
              <<"1", "2", ":", "6", "0">>,
              <<"1", "2", "0", "0">>,
              <<"a", "b", ":", "c", "d">>,
              <<"1", "2", ":", "0", "0", "x">>}

TimerQuietPairs ==
    {<<FormatHM(22, 0), FormatHM(6, 0)>>,
     <<FormatHM(6, 0), FormatHM(22, 0)>>,
     <<FormatHM(22, 0), <<"2", "4", ":", "0", "0">>>>}
    \cup {<<m, FormatHM(6, 0)>> : m \in Malformed}

InitQuietTimer ==
    /\ \E e \in BOOLEAN, window \in TimerQuietPairs :
           LaunchAtDesk([interval_minutes |-> MinInterval, quiet_enabled |-> e,
                   quiet_start |-> window[1], quiet_end |-> window[2]])
    /\ wall_clock \in SessionNows
    /\ probe = ProbeOff

NextQuietTimer ==
    \/ StartAfterExit
    \/ ToggleQuiet
    \/ ClockAdvance
    \/ IsQuietHoursCall
    \/ RunUnpaused

SpecQuietTimer == InitQuietTimer /\ [][NextQuietTimer]_vars

(* The quiet-hours evaluator alone: is_quiet_hours called once for each       *)
(* combination of the two entry fields and the time of day                    *)

QuietHours == {0, 6, 8, 12, 18, 22, 23}
QuietMinutes == {0, 30, 59}
QuietSeconds == {0, 1, 59}
QuietTimes == {FormatHM(h, m) : h \in QuietHours, m \in QuietMinutes}
QuietNows == {TimeOfDay(h, m, sec) : h \in QuietHours, m \in QuietMinutes, sec \in QuietSeconds}

InitQuiet ==
    /\ \E e \in BOOLEAN, s \in QuietTimes \cup Malformed, t \in QuietTimes \cup Malformed :
           LaunchAtDesk([interval_minutes |-> MinInterval, quiet_enabled |-> e,
                   quiet_start |-> s, quiet_end |-> t])
    /\ wall_clock \in QuietNows
    /\ probe = ProbeOff

NextQuiet == quiet_answer = <<>> /\ IsQuietHoursCall

SpecQuiet == InitQuiet /\ [][NextQuiet]_vars

(* Restarts: Start may be pressed again while the loop thread of the previous *)
(* run has not yet polled self.running                                        *)

InitRestart ==
    /\ LaunchAtDesk([interval_minutes |-> MinInterval])
    /\ wall_clock = Noon
    /\ probe = ProbeOff

\* a step of thread t within the first seconds of the countdown
EarlyTick(t) ==
    \/ ThreadPoll(t)
    \/ /\ remaining_seconds > IntervalSeconds(interval_minutes) - RestartWindow
       /\ ThreadRead(t)
    \/ ThreadDecrement(t)
    \/ ThreadShow(t)

NextRestart ==
    \/ StartTimer
    \/ StopTimer
    \/ OnClose
    \/ RunCallback
    \/ \E t \in 1..MaxThreads : EarlyTick(t)

SpecRestart == InitRestart /\ [][NextRestart]_vars

(* Reminders on every kind of host: the Now button and the sound checkbox *)

InitEffects ==
    /\ Launch([interval_minutes |-> MinInterval])
    /\ host \in Hosts
    /\ wall_clock = Noon
    /\ probe = ProbeOff

NextEffects ==
    \/ StretchNow
    \/ ToggleSound
    \/ ClosePopup

SpecEffects == InitEffects /\ [][NextEffects]_vars

(* Popups: reminders asked for with Now, the persistent checkbox and the    *)
(* timeout spinbox; popups are dismissed, time out, or go with the window   *)

InitPopup ==
    /\ \E persistent \in BOOLEAN :
           LaunchAtDesk([interval_minutes |-> MinInterval, popup_persistent |-> persistent])
    /\ wall_clock = Noon
    /\ probe = ProbeOff

NextPopup ==
    \/ StretchNow
    \/ TogglePersistent
    \/ \E v \in {MinPopupTimeout, DefaultPopupTimeout, MaxPopupTimeout} : SetPopupTimeout(v)
    \/ ToggleSound
    \/ ClosePopup
    \/ OnClose

SpecPopup == InitPopup /\ [][NextPopup]_vars

\* the Tk event loop runs an after() callback once its time has come
SpecPopupFair == SpecPopup /\ WF_vars(PopupTimeout)

(* Settings: the constructor loads the file it finds, the user changes      *)
(* settings, the handlers save them                                         *)

\* a valid value of each field that is not its default
FileValues ==
    [interval_minutes |-> MinInterval,
     quiet_enabled |-> TRUE,
     quiet_start |-> FormatHM(22, 0),
     quiet_end |-> FormatHM(6, 0),
     theme |-> "dark",
     custom_message |-> "Stand up!",
     popup_timeout_seconds |-> MinPopupTimeout,
     popup_persistent |-> TRUE,
     sound_enabled |-> FALSE]

\* JSON objects with any of the nine fields, and no file
ValidFiles ==
    {ObjectFile(JsonDump([field \in present |-> FileValues[field]])) :
        present \in SUBSET SettingsFields} \cup {AbsentFile}

\* files with other content: no JSON, no object, or an object with a value of
\* the wrong type or outside the values the field allows
MalformedFiles ==
    {TextFile, BinaryFile, ScalarFile, ListFile,
     ObjectFile([theme |-> JString("neon")]),
     ObjectFile([interval_minutes |-> JNumber(MinInterval), theme |-> JString("neon"),
                 sound_enabled |-> JBoolean(FALSE)]),
     ObjectFile([interval_minutes |-> JNumber(0)]),
     ObjectFile([interval_minutes |-> JBoolean(TRUE)]),
     ObjectFile([quiet_enabled |-> JString("maybe")]),
     ObjectFile([sound_enabled |-> JNumber(0)])}

\* texts the user leaves in a quiet-hours entry
QuietEntries == {DefaultQuietStart, FormatHM(22, 0)}

InitLoad ==
    /\ \E file \in ValidFiles \cup MalformedFiles : BeforeLoad(file)
    /\ disk_writable = TRUE
    /\ quiet_answer = <<>>
    /\ host = WorkingHost
    /\ wall_clock = Noon
    /\ probe = ProbeOff

\* the handlers that change a setting
ChangeSetting ==
    \/ \E v \in 1..MaxInterval : UpdateInterval(v)
    \/ ToggleQuiet
    \/ \E str \in QuietEntries : EditQuietStart(str)
    \/ \E str \in QuietEntries : EditQuietEnd(str)
    \/ ToggleTheme
    \/ \E v \in {MinPopupTimeout, MaxPopupTimeout} : SetPopupTimeout(v)
    \/ TogglePersistent
    \/ ToggleSound

NextLoad ==
    \/ LoadSettingsCall
    \/ load_error = "none" /\ ChangeSetting
    \/ load_error = "none" /\ OnClose

SpecLoad == InitLoad /\ [][NextLoad]_vars

(* The Now button in every state of the timer: stopped, running or paused,  *)
(* by day and in the quiet hours of the night, in the first seconds of a    *)
(* countdown                                                                *)

InitNow ==
    /\ \E e \in BOOLEAN :
           LaunchAtDesk([interval_minutes |-> MinInterval, quiet_enabled |-> e,
                         quiet_start |-> FormatHM(22, 0), quiet_end |-> FormatHM(6, 0)])
    /\ wall_clock \in SessionNows
    /\ probe = ProbeOff

NextNow ==
    \/ StartAfterExit
    \/ StopTimer
    \/ TogglePause
    \/ StretchNow
    \/ RunCallback
    \/ ClosePopup
    \/ \E t \in 1..MaxThreads : EarlyTick(t)
    \/ \E t \in 1..MaxThreads : ThreadPaused(t)

SpecNow == InitNow /\ [][NextNow]_vars

(* The timer left running: Start is pressed once and Stop never, Pause now  *)
(* and then; trigger_stretch takes its time on the event thread; the        *)
(* observer counts the ticks since the last request of a trigger            *)

InitLive ==
    /\ LaunchAtDesk([interval_minutes |-> MinInterval])
    /\ wall_clock = Noon
    /\ probe = ProbeLap

\* Start, pressed while the event thread is free
StartWhenFree ==
    /\ event_pc = "mainloop"
    /\ StartAfterExit

\* Pause or Resume, pressed while the event thread is free
PauseWhenFree ==
    /\ event_pc = "mainloop"
    /\ TogglePause

Tick == \E t \in 1..MaxThreads : ThreadStep(t)

NextLive ==
    \/ StartWhenFree
    \/ PauseWhenFree
    \/ RunLabelCallback
    \/ TriggerEnter
    \/ TriggerReset
    \/ Tick

\* the loop thread keeps running, and so does the Tk event loop
SpecLive ==
    /\ InitLive
    /\ [][NextLive]_vars
    /\ WF_vars(Tick)
    /\ WF_vars(RunLabelCallback)
    /\ WF_vars(TriggerEnter)
    /\ WF_vars(TriggerReset)

----------------------------------------------------------------------------
(* Claims *)

\* C1: in every reachable state 0 <= remaining_seconds <= interval_minutes*60 for
\* the current interval_minutes, also after an interval change made while running.
\* The code keeps the countdown of the old interval when the interval is lowered.
C1_RemainingWithinInterval ==
    /\ 0 <= remaining_seconds
    /\ remaining_seconds <= IntervalSeconds(interval_minutes)

\* C2: every trigger (a step that counts a stretch) flips last_secondary_type
\* between eye and breathing, and no other step changes last_secondary_type.
C2_SecondaryAlternates ==
    [][/\ stretch_count' = stretch_count + 1
          => /\ last_secondary_type' # last_secondary_type
             /\ last_secondary_type' \in {"eye", "breathing"}
             /\ current_secondary_exercise' = SecondaryChoice(last_secondary_type')
       /\ last_secondary_type' # last_secondary_type
          => stretch_count' = stretch_count + 1]_vars

\* two triggers in a row, timer-originated or manual: eye, then breathing
C2_Witness ==
    /\ stretch_count = 2
    /\ last_secondary_type = "breathing"
    /\ current_secondary_exercise = "breathing exercise"

\* C3 as stated: with a 1-minute interval and quiet hours off, after Start and 60
\* iterations of the loop exactly one trigger has been requested and
\* remaining_seconds is 60.
C3_OneTriggerAfterSixtyTicks ==
    probe.ticks = 60 => probe.requests = 1 /\ remaining_seconds = 60

\* C3: with a 1-minute interval and quiet hours off, the 60 iterations after Start
\* count remaining_seconds down from 60 to 0 and request no trigger; it is the
\* 61st iteration that requests the one trigger and resets remaining_seconds to 60.
C3_OneTriggerAfterSixtyOneTicks ==
    /\ running /\ probe.ticks <= 60
           => probe.requests = 0 /\ remaining_seconds = 60 - probe.ticks
    /\ probe.ticks = 61 => probe.requests = 1 /\ remaining_seconds = 60

\* the 61st iteration has run: one trigger requested, the countdown back at 60
C3_Witness ==
    /\ running
    /\ probe.ticks = 61
    /\ probe.requests = 1
    /\ remaining_seconds = 60

\* C4: an iteration of the loop made while running and not paused either finds
\* remaining_seconds at 0, sets it to interval_minutes*60 and posts the trigger
\* exactly when quiet hours do not suppress (a suppressed reminder is dropped: no
\* trigger, stretch_count unchanged, countdown reset), or it writes the value it
\* read less 1 and posts no trigger.
C4_TickExpiresOrDecrements ==
    [][\A t \in 1..MaxThreads :
        /\ threads[t].pc = "body" /\ threads'[t].pc = "show"
           => /\ ~paused
              /\ remaining_seconds = 0
              /\ remaining_seconds' = interval_minutes * 60
              /\ stretch_count' = stretch_count
              /\ after_queue' =
                     IF IsQuietHours(quiet_enabled, quiet_start, quiet_end, wall_clock)
                     THEN after_queue
                     ELSE Append(after_queue, TriggerCallback)
        /\ threads[t].pc = "body" /\ threads'[t].pc = "dec"
           => /\ ~paused
              /\ remaining_seconds > 0
              /\ threads'[t].local = remaining_seconds
              /\ UNCHANGED <<remaining_seconds, stretch_count, after_queue>>
        /\ threads[t].pc = "dec" /\ threads'[t].pc = "show"
           => /\ remaining_seconds' = threads[t].local - 1
              /\ remaining_seconds' >= 0
              /\ UNCHANGED <<stretch_count, after_queue>>]_vars

\* an expiry during quiet hours: the countdown is back at the interval, nothing
\* is queued and no stretch was ever counted
C4_Witness ==
    /\ running
    /\ \E t \in 1..MaxThreads : threads[t].pc = "show"
    /\ remaining_seconds = 60
    /\ timer_label = <<0, 0>>
    /\ after_queue = <<>>
    /\ stretch_count = 0
    /\ current_stretch = None
    /\ quiet_enabled /\ quiet_start = FormatHM(22, 0) /\ quiet_end = FormatHM(6, 0)
    /\ wall_clock = TimeOfDay(23, 30, 0)

\* the time of day an entry of QuietTimes stands for
ClockOf(str) ==
    CHOOSE time \in {TimeOfDay(h, m, 0) : h \in QuietHours, m \in QuietMinutes} :
        \E h \in QuietHours, m \in QuietMinutes :
            str = FormatHM(h, m) /\ time = TimeOfDay(h, m, 0)

\* C5: with quiet hours enabled and valid HH:MM fields quiet_start <= quiet_end,
\* is_quiet_hours answers true exactly when quiet_start <= now <= quiet_end, both
\* ends included.
C5_SameDayWindow ==
    (/\ quiet_answer # <<>>
     /\ quiet_enabled
     /\ quiet_start \in QuietTimes
     /\ quiet_end \in QuietTimes
     /\ ClockOf(quiet_start) <= ClockOf(quiet_end))
        => quiet_answer[1] = (/\ ClockOf(quiet_start) <= wall_clock
                              /\ wall_clock <= ClockOf(quiet_end))

\* the answer at the very end of an 08:00-18:00 window
C5_Witness ==
    /\ quiet_enabled
    /\ quiet_start = FormatHM(8, 0)
    /\ quiet_end = FormatHM(18, 0)
    /\ wall_clock = TimeOfDay(18, 0, 0)
    /\ quiet_answer = <<TRUE>>

\* C6: with quiet hours enabled and valid HH:MM fields quiet_start > quiet_end,
\* is_quiet_hours answers true exactly when now >= quiet_start or
\* now <= quiet_end; for 22:00-06:00 it is true at 23:30 and false at 12:00.
C6_OvernightWindow ==
    /\ (/\ quiet_answer # <<>>
        /\ quiet_enabled
        /\ quiet_start \in QuietTimes
        /\ quiet_end \in QuietTimes
        /\ ClockOf(quiet_start) > ClockOf(quiet_end))
           => quiet_answer[1] = (\/ wall_clock >= ClockOf(quiet_start)
                                 \/ wall_clock <= ClockOf(quiet_end))
    /\ (/\ quiet_answer # <<>>
        /\ quiet_enabled
        /\ quiet_start = <<"2", "2", ":", "0", "0">>
        /\ quiet_end = <<"0", "6", ":", "0", "0">>)
           => /\ wall_clock = 23 * 3600 + 30 * 60 => quiet_answer = <<TRUE>>
              /\ wall_clock = 12 * 3600 => quiet_answer = <<FALSE>>

\* the answer at 23:30 inside the 22:00-06:00 window
C6_Witness ==
    /\ quiet_enabled
    /\ quiet_start = FormatHM(22, 0)
    /\ quiet_end = FormatHM(6, 0)
    /\ wall_clock = TimeOfDay(23, 30, 0)
    /\ quiet_answer = <<TRUE>>

\* quiet hours are disabled, or enabled with a field that is no HH:MM time
FailOpenCase ==
    \/ ~quiet_enabled
    \/ quiet_start \in Malformed
    \/ quiet_end \in Malformed

\* C7: when quiet hours are disabled, or enabled with a quiet_start or quiet_end
\* that does not parse as HH:MM, is_quiet_hours answers false and does not raise,
\* so the iteration that finds the countdown expired posts the trigger.
C7_FailOpen ==
    [][FailOpenCase
       => /\ quiet_answer' # quiet_answer => quiet_answer' = <<FALSE>>
          /\ \A t \in 1..MaxThreads :
                 threads[t].pc = "body" /\ threads'[t].pc = "show"
                     => after_queue' = Append(after_queue, TriggerCallback)]_vars

\* enabled with an unparsable start, late at night: the answer was false and the
\* expired countdown led to a counted stretch
C7_Witness ==
    /\ quiet_enabled
    /\ quiet_start = <<"a", "b", ":", "c", "d">>
    /\ wall_clock = TimeOfDay(23, 30, 0)
    /\ quiet_answer = <<FALSE>>
    /\ stretch_count = 1
    /\ current_stretch # None

\* C8: start_timer from a state in which the timer is not running sets running,
\* clears paused, zeroes stretch_count, records start_time and sets
\* remaining_seconds to interval_minutes*60; it leaves last_secondary_type and
\* the current exercises unchanged.
C8_StartResetsSession ==
    [][~running /\ running'
       => /\ paused' = FALSE
          /\ stretch_count' = 0
          /\ start_time' = wall_clock
          /\ start_time' # NoTime
          /\ remaining_seconds' = interval_minutes * 60
          /\ last_secondary_type' = last_secondary_type
          /\ current_stretch' = current_stretch
          /\ current_secondary_exercise' = current_secondary_exercise]_vars

\* a restart after a session that counted a stretch: the count is back at 0, the
\* exercise of that session is still the current one
C8_Witness ==
    /\ running
    /\ \E t \in 1..MaxThreads : threads[t].pc = "head"
    /\ stretch_count = 0
    /\ remaining_seconds = 60
    /\ start_time # NoTime
    /\ last_secondary_type = "eye"
    /\ current_stretch # None

\* C9: stop_timer clears running and paused and leaves stretch_count, start_time,
\* last_secondary_type and the current exercises unchanged; while the timer is
\* stopped stretch_count changes only by the next start or by a trigger.
C9_StopKeepsHistory ==
    [][/\ running /\ ~running' /\ ~closed'
          => /\ paused' = FALSE
             /\ stretch_count' = stretch_count
             /\ start_time' = start_time
             /\ last_secondary_type' = last_secondary_type
             /\ current_stretch' = current_stretch
             /\ current_secondary_exercise' = current_secondary_exercise
       /\ ~running /\ stretch_count' # stretch_count
          => \/ running' /\ stretch_count' = 0
             \/ stretch_count' = stretch_count + 1]_vars

\* the timer stopped while paused, after two stretches were counted
C9_Witness ==
    /\ ~running
    /\ ~closed
    /\ ~paused
    /\ stretch_count = 2
    /\ start_time # NoTime
    /\ timer_label = <<1, 0>>

\* C10: once stop_timer has run, the timer label shows "<interval>:00" until the
\* next start or interval change.  A label update the loop posted before the stop
\* still runs after it.
C10_StoppedShowsInterval ==
    ~running /\ ~closed /\ start_time # NoTime
        => timer_label = <<interval_minutes, 0>>

\* C11: once stop_timer or on_close has set running to False, a loop thread that
\* was alive at that moment does not begin another iteration: its next poll of
\* self.running ends it, whatever the user does in between.  Start pressed before
\* that poll sets running again, and the old thread carries on next to the new one.
C11_StaleThreadExits ==
    [][\A t \in 1..MaxThreads :
           t \in stale /\ threads[t].pc = "head" /\ threads'[t].pc # "head"
               => threads'[t].pc = "idle"]_vars

\* C12: a loop iteration that finds paused set, and a poll that finds running
\* cleared, leave remaining_seconds alone and post no trigger; pressing Pause or
\* Resume leaves remaining_seconds and stretch_count as they were.
C12_PausedIterationIdle ==
    [][/\ \A t \in 1..MaxThreads :
              threads[t].pc = "body" /\ paused /\ threads'[t] # threads[t]
                  => /\ threads'[t].pc \in {"head", "idle"}
                     /\ UNCHANGED <<remaining_seconds, stretch_count, after_queue>>
       /\ \A t \in 1..MaxThreads :
              threads[t].pc = "head" /\ ~running /\ threads'[t] # threads[t]
                  => /\ threads'[t].pc = "idle"
                     /\ UNCHANGED <<remaining_seconds, stretch_count, after_queue>>
       /\ paused' # paused /\ running /\ running'
              => UNCHANGED <<remaining_seconds, stretch_count>>]_vars

\* the loop has come round to another iteration while the timer is paused one
\* second into the countdown that followed a stretch
C12_Witness ==
    /\ running
    /\ paused
    /\ \E t \in 1..MaxThreads : threads[t].pc = "body"
    /\ remaining_seconds = 59
    /\ timer_label = <<0, 59>>
    /\ stretch_count = 1

\* C13: every trigger_stretch (a step that opens a popup) adds exactly 1 to
\* stretch_count; stretch_count is never negative and changes otherwise only by
\* start_timer, which zeroes it: it is the number of triggers since the last
\* start, or since launch.
C13_CountsEveryTrigger ==
    [][/\ stretch_count >= 0
       /\ ShownPopups' > ShownPopups => stretch_count' = stretch_count + 1
       /\ stretch_count' # stretch_count
              => \/ ShownPopups' = ShownPopups + 1 /\ stretch_count' = stretch_count + 1
                 \/ ~running /\ running' /\ stretch_count' = 0]_vars

\* two reminders asked for with Now since launch, the timer never started
C13_Witness ==
    /\ stretch_count = 2
    /\ ShownPopups = 2
    /\ ~running
    /\ start_time = NoTime

\* C14: whatever becomes of the sound (disabled, played, failed) and of the
\* desktop notification (library missing, sent, failed), trigger_stretch does not
\* raise: the notification is attempted whenever the library is there, the popup
\* is shown, and stretch_count, last_secondary_type, the current exercises and
\* the countdown are updated.
C14_SideEffectsIndependent ==
    [][stretch_count' # stretch_count /\ stretch_count' # 0
       => /\ ~effects'.raised
          /\ effects'.sound = "off" <=> ~sound_enabled
          /\ effects'.notification = "unavailable" <=> ~host.plyer
          /\ host.plyer => effects'.notification = IF host.notify THEN "sent" ELSE "failed"
          /\ effects'.popup
          /\ ShownPopups' = ShownPopups + 1
          /\ stretch_count' = stretch_count + 1
          /\ last_secondary_type' # last_secondary_type
          /\ current_stretch' # None
          /\ current_secondary_exercise' # None
          /\ remaining_seconds' = interval_minutes * 60]_vars

\* a reminder on a host where no sound device works and the notification call
\* fails: the popup is up all the same
C14_Witness ==
    /\ host.plyer /\ ~host.notify
    /\ sound_enabled
    /\ effects.sound = "silent"
    /\ effects.notification = "failed"
    /\ effects.popup
    /\ ShownPopups = 1
    /\ stretch_count = 1
    /\ remaining_seconds = 60

\* C15: while popup_persistent is set no open popup is due to close by itself,
\* in whichever order the popup was shown and the checkbox ticked.  A popup
\* shown before the box was ticked keeps its pending auto-close.
C15_PersistentNeverTimesOut ==
    popup_persistent => ~ENABLED PopupTimeout

\* C16: a popup shown while popup_persistent is not set leaves the screen, by
\* the Done button, by its timeout or with the window, and the number of popups
\* waiting for their timeout never falls below zero: none is closed twice.
C16_TimedPopupCloses ==
    /\ \A k \in 1..MaxPopups : (popups.timed >= k) ~> (popups.timed < k)
    /\ [](popups.timed \in 0..MaxPopups /\ popups.sticky \in 0..MaxPopups)

C16_Witness ==
    /\ ~closed
    /\ ~popup_persistent
    /\ effects.popup
    /\ popups.timed = 1

\* C17: at most one popup is open at any time.  Every trigger opens a new
\* Toplevel and leaves the ones already open alone.
C17_OnePopupShown ==
    ShownPopups <= 1

\* C18: load_settings does not raise on a settings file whose content is not
\* JSON, is JSON but no object, or is an object with a value of the wrong type
\* or outside the allowed values, and it leaves every setting at its default.
\* Only JSONDecodeError and IOError are caught, and values are taken unchecked.
C18_MalformedLoadsDefaults ==
    [][ /\ load_error = "pending"
        /\ load_error' # "pending"
        /\ \/ settings_file.kind \in {"text", "binary", "scalar", "list"}
           \/ /\ settings_file.kind = "object"
              /\ \E field \in DOMAIN settings_file.data :
                     ~ValidMember(field, settings_file.data[field])
        => /\ load_error' = "none"
           /\ SettingsDict' = DefaultSettings ]_vars

\* C19: from a JSON object with any subset of the nine fields load_settings
\* takes, field by field, the file's value where the field is present and the
\* built-in default where it is absent; a missing file gives all defaults.
C19_LoadsPerField ==
    [][ /\ load_error = "pending"
        /\ load_error' # "pending"
        /\ \/ settings_file.kind = "absent"
           \/ /\ settings_file.kind = "object"
              /\ \A field \in DOMAIN settings_file.data :
                     ValidMember(field, settings_file.data[field])
        => LET builtin == [interval_minutes |-> 45,
                           quiet_enabled |-> FALSE,
                           quiet_start |-> <<"1", "8", ":", "0", "0">>,
                           quiet_end |-> <<"0", "8", ":", "0", "0">>,
                           theme |-> "light",
                           custom_message |-> "Time to Stretch!",
                           popup_timeout_seconds |-> 180,
                           popup_persistent |-> FALSE,
                           sound_enabled |-> TRUE]
           IN  /\ load_error' = "none"
               /\ ~closed'
               /\ \A field \in SettingsFields :
                      IF field \in DOMAIN settings_file.data
                      THEN JsonDump(SettingsDict')[field] = settings_file.data[field]
                      ELSE SettingsDict'[field] = builtin[field] ]_vars

C19_Witness ==
    /\ load_error = "none"
    /\ ~closed
    /\ settings_file.kind = "object"
    /\ DOMAIN settings_file.data = {"interval_minutes", "theme", "sound_enabled"}
    /\ interval_minutes = MinInterval
    /\ theme = "dark"
    /\ ~sound_enabled
    /\ ~quiet_enabled
    /\ popup_timeout_seconds = DefaultPopupTimeout
    /\ custom_message = DefaultMessage

C21_SavedAfterEveryChange ==
    [][ load_error = "none" /\ disk_writable
        => settings_file' = ObjectFile(JsonDump(SettingsDict')) ]_vars

\* C22: interval_minutes is always within 1..120 and popup_timeout_seconds
\* within 10..300, also directly after load_settings, so the reset value of the
\* countdown is at least 60.  load_settings takes the file's numbers unchecked.
C22_SettingsInRange ==
    /\ interval_minutes \in MinInterval..SpinboxMaxInterval
    /\ popup_timeout_seconds \in MinPopupTimeout..MaxPopupTimeout
    /\ IntervalSeconds(interval_minutes) >= 60

\* C23: a step of a loop thread changes none of stretch_count,
\* last_secondary_type, current_stretch, current_secondary_exercise, the popups,
\* the label and the Pause button, nor a flag or a setting; it writes only
\* remaining_seconds and appends callbacks to the event thread's queue.
C23_ThreadWritesOnlyCountdown ==
    [][ (\E t \in 1..MaxThreads : threads[t].pc # "idle" /\ threads'[t] # threads[t])
        => /\ UNCHANGED <<stretch_count, last_secondary_type, current_stretch,
                          current_secondary_exercise, widgetVars, running, paused,
                          start_time, settingsVars, closed>>
           /\ \/ after_queue' = after_queue
              \/ /\ Len(after_queue') = Len(after_queue) + 1
                 /\ SubSeq(after_queue', 1, Len(after_queue)) = after_queue ]_vars

C23_Witness ==
    /\ running
    /\ after_queue # <<>>
    /\ Head(after_queue) = TriggerCallback
    /\ stretch_count = 0
    /\ popups = NoPopups
    /\ remaining_seconds = IntervalSeconds(interval_minutes)
    /\ \E t \in 1..MaxThreads : threads[t].pc = "show"

\* C24: at most one loop thread is inside an iteration of timer_loop (past its
\* test of self.running) at any time, whatever the Start and Stop presses.  A
\* thread that has not yet seen self.running False when Start is pressed again
\* goes on beside the new one, and both decrement the countdown.
C24_OneTickingLoop ==
    Cardinality({t \in 1..MaxThreads : threads[t].pc \in {"body", "dec", "show"}}) <= 1

\* C25: when trigger_stretch has reset the countdown between the read and the
\* write of a tick's "remaining_seconds -= 1", the countdown is the interval or
\* one second less once the tick has written.  The write stores the value read
\* before the reset, less one: the reset is lost.
C25_ResetSurvivesTick ==
    [][ \A t \in 1..MaxThreads :
            /\ threads[t].pc = "dec"
            /\ threads'[t].pc = "show"
            /\ effects.popup
            /\ remaining_seconds = IntervalSeconds(interval_minutes)
            /\ threads[t].local # remaining_seconds
            => remaining_seconds' \in {IntervalSeconds(interval_minutes),
                                       IntervalSeconds(interval_minutes) - 1} ]_vars

\* C26: while the timer is stopped, and short of a press of Now, the count of
\* reminders, the secondary type and the countdown do not change and no popup
\* opens.  A trigger already posted, or posted by the iteration in flight, runs
\* after stop_timer all the same, and so does the tick in flight.
C26_NoReminderAfterStop ==
    [][ /\ ~running
        /\ ~running'
        /\ ~(stretch_count' = stretch_count + 1 /\ after_queue' = after_queue)
        => /\ stretch_count' = stretch_count
           /\ last_secondary_type' = last_secondary_type
           /\ remaining_seconds' = remaining_seconds
           /\ ShownPopups' <= ShownPopups ]_vars

\* C27: the Now button can be pressed in every state of the open window,
\* stopped, running or paused, in quiet hours or not, and its press is a full
\* trigger: stretch_count grows by one, the secondary type flips, one popup
\* opens and the countdown is set to the interval; running, paused, start_time
\* and the settings stay as they are.
C27_NowTriggersAlways ==
    /\ [](~closed /\ stretch_count < MaxCount /\ ShownPopups < MaxPopups
            => ENABLED StretchNow)
    /\ [][ stretch_count' = stretch_count + 1
           => /\ last_secondary_type' # last_secondary_type
              /\ last_secondary_type' \in {"eye", "breathing"}
              /\ ShownPopups' = ShownPopups + 1
              /\ remaining_seconds' = interval_minutes * 60
              /\ UNCHANGED <<running, paused, start_time, settingsVars>> ]_vars

\* Now pressed at night, within the quiet hours, while the timer is paused
C27_Witness ==
    /\ running
    /\ paused
    /\ IsQuietHours(quiet_enabled, quiet_start, quiet_end, wall_clock)
    /\ stretch_count = 1
    /\ ShownPopups = 1
    /\ remaining_seconds = IntervalSeconds(interval_minutes)
    /\ \E t \in 1..MaxThreads : threads[t].pc = "head"

\* C29: while the window is open, paused implies running: the Pause button is
\* enabled exactly while the timer runs, and a step that starts or stops the
\* timer leaves paused cleared.
C29_PausedOnlyWhileRunning ==
    /\ [](~closed => (paused => running))
    /\ [](~closed => (pause_btn = "normal" <=> running))
    /\ [][running' # running /\ ~closed' => ~paused']_vars

\* the timer paused after its first tick
C29_Witness ==
    /\ ~closed
    /\ running
    /\ paused
    /\ pause_btn = "normal"
    /\ remaining_seconds = IntervalSeconds(interval_minutes) - 1
    /\ \E t \in 1..MaxThreads : threads[t].pc = "body"

====
